---- MODULE Spec2Model ----
(***************************************************************************)
(* Model of senc-ai: the auth middleware (authenticateToken, requireAdmin,  *)
(* userRateLimit), the chat router (POST /send and its provider await,      *)
(* DELETE /conversations/:id, GET messages), the user router (titles,       *)
(* exports, preferences), the admin router and the /admin/* billing         *)
(* handlers, over the SQLite store; and the client's chat store.            *)
(*                                                                         *)
(* better-sqlite3 is synchronous and Node runs one callback at a time, so  *)
(* a handler is atomic up to its first await: POST /send is two steps      *)
(* (PostSend up to the provider call, ProviderReturn or ProviderFail       *)
(* after it), POST /users is two steps (AdminPostUser up to bcrypt.hash,   *)
(* AdminInsertUser after it), every other handler is one step. In the      *)
(* client, sendMessage and loadMessages are a step up to their fetch and   *)
(* a step for each way the fetch settles.                                  *)
(***************************************************************************)
EXTENDS Integers, Sequences, FiniteSets, TLC

VARIABLES
    now,            \* Date.now(), in abstract time units
    users,          \* table users: id -> [email, role, is_active]
    nextUserId,     \* AUTOINCREMENT sequence of users
    creating,       \* the POST /users requests awaiting bcrypt.hash
    user_preferences, \* table user_preferences: rows [user_id, theme, language,
                    \* notifications, auto_save, default_provider, default_model]
    conversations,  \* table conversations: id -> [user_id, provider, model]
    nextConvId,     \* AUTOINCREMENT sequence of conversations
    messages,       \* table messages in id order: [conversation_id, role, tokens_used],
                    \* with history fields by (the requesting user) and req (the request)
    user_usage,     \* table user_usage in id order: [user_id, date, messages_sent, tokens_used]
    settings,       \* settings row max_messages_per_day, as parseInt reads it
    api_keys,       \* providers that have an active row in api_keys
    subscription_plans, \* table subscription_plans: id -> [name, message_limit]
    nextPlanId,     \* AUTOINCREMENT sequence of subscription_plans
    user_subscriptions, \* table user_subscriptions: id -> [user_id, plan_id, status]
    user_credits,   \* table user_credits: user_id -> [credits, total_used]
    ai_models,      \* table ai_models: model_name -> [required_plan, is_active]
    limiter,        \* the arguments userRateLimit was called with: [maxRequests, windowMs]
    requests,       \* userRateLimit's Map: identity -> timestamps
    admitted,       \* history: identity -> timestamps, still within windowMs, of the
                    \* requests the limiter passed to next()
    reqs,           \* history of POST /send requests that passed the quota check
    last,           \* the last request served and its response
    chatStore,      \* the client's chat store: [messages, isLoading, isSending]
    sends,          \* the client's sendMessage calls: call -> [status, conversationId]
    fetches         \* the client's loads in flight: [messages, conversations]

vars == <<now, users, nextUserId, creating, user_preferences, conversations, nextConvId, messages, user_usage, settings,
          api_keys, subscription_plans, nextPlanId, user_subscriptions, user_credits,
          ai_models, limiter, requests, admitted, reqs, last, chatStore, sends, fetches>>

chatTables == <<conversations, nextConvId, messages, user_usage>>
config == <<settings, api_keys>>
billingTables == <<subscription_plans, nextPlanId, user_subscriptions, user_credits, ai_models>>
accounts == <<nextUserId, creating, user_preferences>>
store == <<users, accounts, chatTables, config, billingTables>>
middleware == <<now, limiter, requests, admitted, reqs>>
client == <<chatStore, sends, fetches>>

\* ---------------------------------------------------------------- bounds
NumUsers == 2
MaxTime == 2
DayLen == 2
MaxSends == 2
MaxQuota == 1
MaxTokens == 1
ChatMaxRequests == 1
ChatWindowMs == 1
InitCredits == 2
MaxClock == 5
MaxLimit == 2
MaxWindow == 3
MaxPlans == 4
HistoryLimit == 2
MaxUserId == 3
MaxCreating == 2
MaxCalls == 2
MaxFetches == 1
\* the milliseconds of a second, 1000 in part_000:91, scaled down
MsPerSecond == 2

NULL == -1

UserIds == 1..NumUsers
Providers == {"google", "openrouter"}
Roles == {"user", "admin"}
Models == {"gemini-pro", "openai/gpt-4"}
Identities == UserIds \cup {0}
\* the email of the user registered with id u; user 1 is the default administrator
EmailOf(u) == IF u = 1 THEN "admin@example.com" ELSE "user" \o ToString(u) \o "@example.com"
Emails == {EmailOf(u) : u \in UserIds} \cup {"new@example.com"}
\* a string Joi.string().email() rejects
InvalidEmail == "not-an-email"

\* ---------------------------------------------------------------- requests
NoToken == [kind |-> "none", userId |-> 0, role |-> "none"]
BadToken == [kind |-> "invalid", userId |-> 0, role |-> "none"]
\* a token carries the userId and the role the user had when it was issued
ValidTokens == {[kind |-> "valid", userId |-> u, role |-> IF u = 1 THEN "admin" ELSE "user"] : u \in UserIds}
Tokens == {NoToken, BadToken} \cup ValidTokens

NoUser == [id |-> 0, role |-> "none", is_active |-> FALSE]

Choices == {[provider |-> "google", model |-> "gemini-pro"],
            [provider |-> "openrouter", model |-> "openai/gpt-4"]}

\* a conversationId of 0 is falsy and takes the !currentConversationId branch,
\* as an absent one does
ValidBodies == {[message |-> "hi", conversationId |-> c, provider |-> ch.provider, model |-> ch.model] :
                  c \in 0..MaxSends, ch \in Choices}
InvalidBodies == {[message |-> "", conversationId |-> 0, provider |-> "google", model |-> "gemini-pro"],
                  [message |-> "hi", conversationId |-> 0, provider |-> "other", model |-> "gemini-pro"]}
SendBodies == ValidBodies \cup InvalidBodies

\* bodies without conversationId (conversationId: Joi ... optional())
AbsentIdBodies == {[message |-> "hi", conversationId |-> NULL, provider |-> ch.provider, model |-> ch.model] :
                     ch \in Choices}

\* sendMessageSchema.validate
sendMessageSchema(body) ==
    /\ body.message # ""
    /\ body.provider \in Providers

\* a request served: the token it carried, the middleware or handler that
\* answered, the status and error text of the response, req.user then, and the
\* message rows and the retryAfter in the response body
Resp(tok, by, status, error, user) ==
    [tok |-> tok, by |-> by, status |-> status, error |-> error, user |-> user, data |-> <<>>,
     retryAfter |-> NULL]

\* the response of a middleware that did not call next()
GateResp(tok, gate) ==
    [Resp(tok, gate.by, gate.status, gate.error, gate.user) EXCEPT !.retryAfter = gate.retryAfter]

\* ---------------------------------------------------------------- middleware
\* authenticateToken without the test of user.is_active
authenticateToken_IgnoreActive(tok) ==
    IF tok.kind = "none"
    THEN [status |-> 401, error |-> "Access token required", user |-> NoUser]
    ELSE IF tok.kind = "invalid"
    THEN [status |-> 403, error |-> "Invalid or expired token", user |-> NoUser]
    ELSE IF tok.userId \notin DOMAIN users
    THEN [status |-> 403, error |-> "User not found or inactive", user |-> NoUser]
    ELSE [status |-> 0, error |-> "",
          user |-> [id |-> tok.userId, role |-> users[tok.userId].role,
                    is_active |-> users[tok.userId].is_active]]

\* authenticateToken trusting the claims of the token without loading the user
authenticateToken_TrustToken(tok) ==
    IF tok.kind = "none"
    THEN [status |-> 401, error |-> "Access token required", user |-> NoUser]
    ELSE IF tok.kind = "invalid"
    THEN [status |-> 403, error |-> "Invalid or expired token", user |-> NoUser]
    ELSE [status |-> 0, error |-> "",
          user |-> [id |-> tok.userId, role |-> tok.role, is_active |-> TRUE]]

\* authenticateToken: the response it sends (status 0 when it calls next()) and req.user
authenticateToken(tok) ==
    IF tok.kind = "none"
    THEN [status |-> 401, error |-> "Access token required", user |-> NoUser]
    ELSE IF tok.kind = "invalid"
    THEN [status |-> 403, error |-> "Invalid or expired token", user |-> NoUser]
    ELSE IF tok.userId \notin DOMAIN users \/ ~users[tok.userId].is_active
    THEN [status |-> 403, error |-> "User not found or inactive", user |-> NoUser]
    ELSE [status |-> 0, error |-> "",
          user |-> [id |-> tok.userId, role |-> users[tok.userId].role,
                    is_active |-> users[tok.userId].is_active]]

\* requireAdmin trusting the role claim of the token instead of req.user.role
requireAdmin_TokenRole(tok, user) == tok.role = "admin"

\* requireAdmin: TRUE when it calls next()
requireAdmin(tok, user) == user.role = "admin"

\* the filter of userRateLimit with a window one unit shorter
validRequests_Shorter(userRequests, t, windowMs) ==
    SelectSeq(userRequests, LAMBDA time : time > t - windowMs + 1)

\* the filter of userRateLimit
validRequests(userRequests, t, windowMs) ==
    SelectSeq(userRequests, LAMBDA time : time > t - windowMs)

\* Math.ceil(a / b)
Ceil(a, b) == -((-a) \div b)

\* retryAfter rounded down instead of up
retryAfter_Floor(valid, windowMs, t) ==
    IF valid = <<>> THEN NULL ELSE (valid[1] + windowMs - t) \div MsPerSecond

\* Math.ceil((validRequests[0] + windowMs - now) / 1000); validRequests[0] of an
\* empty list is undefined, the result NaN, and JSON.stringify writes null
retryAfter(valid, windowMs, t) ==
    IF valid = <<>> THEN NULL ELSE Ceil(valid[1] + windowMs - t, MsPerSecond)

\* a limiter that records the rejected requests too
userRateLimit_RecordRejected(maxRequests, windowMs, map, id, t) ==
    LET userRequests == IF id \in DOMAIN map THEN map[id] ELSE <<>>
        valid == validRequests(userRequests, t, windowMs)
    IN  [admit |-> Len(valid) < maxRequests,
         retryAfter |-> retryAfter(valid, windowMs, t),
         map |-> [k \in DOMAIN map \cup {id} |-> IF k = id THEN Append(valid, t) ELSE map[k]]]

\* the middleware userRateLimit(maxRequests, windowMs) returns, for identity id
\* at time t: whether it calls next(), the Map afterwards and retryAfter
userRateLimit(maxRequests, windowMs, map, id, t) ==
    LET userRequests == IF id \in DOMAIN map THEN map[id] ELSE <<>>
        valid == validRequests(userRequests, t, windowMs)
    IN  IF Len(valid) >= maxRequests
        THEN [admit |-> FALSE,
              retryAfter |-> retryAfter(valid, windowMs, t),
              map |-> [k \in DOMAIN map \cup {id} |-> IF k = id THEN userRequests ELSE map[k]]]
        ELSE [admit |-> TRUE,
              retryAfter |-> NULL,
              map |-> [k \in DOMAIN map \cup {id} |-> IF k = id THEN Append(valid, t) ELSE map[k]]]

\* the history of admitted requests after the limiter served identity id
Admit(rl, id) ==
    IF rl.admit THEN [admitted EXCEPT ![id] = Append(@, now)] ELSE admitted

\* router.use(authenticateToken); router.use(userRateLimit(30, 60000)) of the chat router
ChatGate(tok) ==
    LET auth == authenticateToken(tok)
        rl == userRateLimit(limiter.maxRequests, limiter.windowMs, requests, auth.user.id, now)
    IN  IF auth.status # 0
        THEN [by |-> "authenticateToken", status |-> auth.status, error |-> auth.error,
              user |-> NoUser, map |-> requests, log |-> admitted, retryAfter |-> NULL]
        ELSE IF ~rl.admit
        THEN [by |-> "userRateLimit", status |-> 429,
              error |-> "Too many requests. Please try again later.",
              user |-> auth.user, map |-> rl.map, log |-> admitted,
              retryAfter |-> rl.retryAfter]
        ELSE [by |-> "", status |-> 0, error |-> "", user |-> auth.user, map |-> rl.map,
              log |-> Admit(rl, auth.user.id), retryAfter |-> NULL]

\* router.use(authenticateToken); router.use(requireAdmin) of the admin router, and
\* the authenticateToken, requireAdmin pair of every /admin/* billing handler
AdminGate(tok) ==
    LET auth == authenticateToken(tok)
    IN  IF auth.status # 0
        THEN [by |-> "authenticateToken", status |-> auth.status, error |-> auth.error,
              user |-> NoUser]
        ELSE IF ~requireAdmin(tok, auth.user)
        THEN [by |-> "requireAdmin", status |-> 403, error |-> "Admin access required",
              user |-> auth.user]
        ELSE [by |-> "", status |-> 0, error |-> "", user |-> auth.user]

\* ---------------------------------------------------------------- store helpers
\* new Date().toISOString().split('T')[0]
today(t) == t \div DayLen

\* a table without the rows whose key is in gone
Without(table, gone) == [k \in DOMAIN table \ gone |-> table[k]]

\* a table with one row inserted or replaced
With(table, key, row) == [k \in DOMAIN table \cup {key} |-> IF k = key THEN row ELSE table[k]]

\* WHERE id = ? without AND user_id = ?
OwnedBy_AnyUser(convs, id, userId) == id \in DOMAIN convs

\* WHERE id = ? AND user_id = ? on conversations
OwnedBy(convs, id, userId) ==
    /\ id \in DOMAIN convs
    /\ convs[id].user_id = userId

\* the positions of the user_usage rows of (user_id, date)
UsageRows(usage, userId, date) ==
    {i \in 1..Len(usage) : usage[i].user_id = userId /\ usage[i].date = date}

UpsertUsage_Replace(usage, userId, date, tokensUsed) ==
    Append(SelectSeq(usage, LAMBDA row : ~(row.user_id = userId /\ row.date = date)),
           [user_id |-> userId, date |-> date, messages_sent |-> 1, tokens_used |-> tokensUsed])

\* INSERT INTO user_usage ... ON CONFLICT(user_id, date) DO UPDATE of POST /send
UpsertUsage(usage, userId, date, tokensUsed) ==
    IF UsageRows(usage, userId, date) # {}
    THEN [i \in 1..Len(usage) |->
            IF i \in UsageRows(usage, userId, date)
            THEN [usage[i] EXCEPT !.messages_sent = @ + 1, !.tokens_used = @ + tokensUsed]
            ELSE usage[i]]
    ELSE Append(usage, [user_id |-> userId, date |-> date,
                        messages_sent |-> 1, tokens_used |-> tokensUsed])

\* the quota test of POST /send: TRUE when it answers 429
DailyLimitReached(userId, date) ==
    LET rows == UsageRows(user_usage, userId, date)
    IN  /\ rows # {}
        /\ user_usage[CHOOSE i \in rows : \A j \in rows : i <= j].messages_sent >= settings

\* POST /send creating the conversation a request names when it does not exist
GetOrCreateConversation_Upsert(userId, body) ==
    IF body.conversationId \in {NULL, 0}
    THEN [id |-> nextConvId, created |-> TRUE,
          table |-> With(conversations, nextConvId,
                         [user_id |-> userId, title |-> body.message \o "...",
                          provider |-> body.provider, model |-> body.model])]
    ELSE [id |-> body.conversationId, created |-> FALSE,
          table |-> IF body.conversationId \in DOMAIN conversations THEN conversations
                    ELSE With(conversations, body.conversationId,
                              [user_id |-> userId, title |-> body.message \o "...",
                          provider |-> body.provider, model |-> body.model])]

\* the conversation POST /send writes to and the conversations table afterwards
GetOrCreateConversation(userId, body) ==
    IF body.conversationId \in {NULL, 0}
    THEN [id |-> nextConvId, created |-> TRUE,
          table |-> With(conversations, nextConvId,
                         [user_id |-> userId, title |-> body.message \o "...",
                          provider |-> body.provider, model |-> body.model])]
    ELSE [id |-> body.conversationId, created |-> FALSE, table |-> conversations]

\* the adapter POST /send dispatches to
AdapterFor_Swapped(provider) ==
    IF provider = "google" THEN "callOpenRouter"
    ELSE IF provider = "openrouter" THEN "callGoogleAI"
    ELSE "none"

AdapterFor(provider) ==
    IF provider = "google" THEN "callGoogleAI"
    ELSE IF provider = "openrouter" THEN "callOpenRouter"
    ELSE "none"

\* SELECT role, content FROM messages WHERE conversation_id = ? ORDER BY
\* created_at ASC LIMIT 20 (the limit scaled to HistoryLimit): the first rows of
\* the conversation, each as its role and the request that wrote it
ConversationHistory(msgs, conv) ==
    LET rows == SelectSeq(msgs, LAMBDA m : m.conversation_id = conv)
        n == IF Len(rows) < HistoryLimit THEN Len(rows) ELSE HistoryLimit
    IN  [i \in 1..n |-> [role |-> rows[i].role, req |-> rows[i].req]]

\* a schema without ON DELETE CASCADE on messages.conversation_id
CascadeMessages_None(msgs, convs) == msgs

\* a cascade that removes only the user rows of a deleted conversation
CascadeMessages_KeepReplies(msgs, convs) ==
    SelectSeq(msgs, LAMBDA m : m.conversation_id \in DOMAIN convs \/ m.role = "assistant")

\* ON DELETE CASCADE from conversations to messages
CascadeMessages(msgs, convs) ==
    SelectSeq(msgs, LAMBDA m : m.conversation_id \in DOMAIN convs)

\* ---------------------------------------------------------------- chat router
Clock(limit) ==
    /\ now < limit
    /\ now' = now + 1
    /\ admitted' = [i \in DOMAIN admitted |->
                      SelectSeq(admitted[i], LAMBDA time : time > now + 1 - limiter.windowMs)]
    /\ last' = Resp(NoToken, "none", 0, "", NoUser)
    /\ UNCHANGED <<store, limiter, client, requests, reqs>>

Tick == Clock(MaxTime)

\* router.post('/send'), up to the await of the provider adapter
PostSend(tok, body) ==
    LET gate == ChatGate(tok)
        userId == gate.user.id
        date == today(now)
        conv == GetOrCreateConversation(userId, body)
        r == Len(reqs) + 1
        userMessage == [conversation_id |-> conv.id, role |-> "user",
                        tokens_used |-> 0, by |-> userId, req |-> r]
        msgs1 == Append(messages, userMessage)
        history == ConversationHistory(msgs1, conv.id)
        adapter == AdapterFor(body.provider)
        keyed == body.provider \in api_keys
        entry == [tok |-> tok, user |-> userId, reqUser |-> gate.user, today |-> date, conv |-> conv.id,
                  provider |-> body.provider, model |-> body.model,
                  history |-> history, adapter |-> adapter,
                  status |-> IF keyed THEN 0 ELSE 500, tokensUsed |-> 0,
                  trace |-> <<"quota", "user_message", "history", adapter>>]
    IN  /\ requests' = gate.map
        /\ admitted' = gate.log
        /\ UNCHANGED <<now, limiter, client, users, accounts, user_usage, config, billingTables>>
        /\ IF gate.status # 0
           THEN /\ last' = GateResp(tok, gate)
                /\ UNCHANGED <<conversations, nextConvId, messages, reqs>>
           ELSE IF ~sendMessageSchema(body)
           THEN /\ last' = Resp(tok, "send", 400, "validation", gate.user)
                /\ UNCHANGED <<conversations, nextConvId, messages, reqs>>
           ELSE IF DailyLimitReached(userId, date)
           THEN /\ last' = Resp(tok, "send", 429, "Daily message limit reached", gate.user)
                /\ UNCHANGED <<conversations, nextConvId, messages, reqs>>
           ELSE IF conv.id \notin DOMAIN conv.table
           THEN \* FOREIGN KEY (conversation_id) fails: the outer catch answers
                /\ last' = Resp(tok, "send", 500, "Internal server error", gate.user)
                /\ UNCHANGED <<conversations, nextConvId, messages, reqs>>
           ELSE /\ Len(reqs) < MaxSends
                /\ conversations' = conv.table
                /\ nextConvId' = IF conv.created THEN nextConvId + 1 ELSE nextConvId
                /\ messages' = msgs1
                /\ reqs' = Append(reqs, entry)
                /\ last' = IF keyed THEN Resp(tok, "send", 0, "awaiting", gate.user)
                           ELSE Resp(tok, "send", 500, "AI service temporarily unavailable", gate.user)

\* the adapter's HTTP call fails or its answer has no text: catch (apiError) answers
ProviderFail(r) ==
    /\ r \in 1..Len(reqs)
    /\ reqs[r].status = 0
    /\ reqs' = [reqs EXCEPT ![r].status = 500]
    /\ last' = Resp(reqs[r].tok, "send", 500, "AI service temporarily unavailable", reqs[r].reqUser)
    /\ UNCHANGED <<now, store, limiter, client, requests, admitted>>

\* router.post('/send') after the await: the adapter returned a response
ProviderReturn(r, total_tokens) ==
    LET q == reqs[r]
        tokensUsed == IF q.provider = "openrouter" THEN total_tokens ELSE 0
        assistantMessage == [conversation_id |-> q.conv, role |-> "assistant",
                             tokens_used |-> tokensUsed, by |-> q.user, req |-> r]
    IN  /\ r \in 1..Len(reqs)
        /\ q.status = 0
        /\ UNCHANGED <<now, users, accounts, conversations, nextConvId, config, billingTables,
                       limiter, client, requests, admitted>>
        /\ IF q.conv \notin DOMAIN conversations
           THEN \* FOREIGN KEY (conversation_id) fails: the outer catch answers
                /\ reqs' = [reqs EXCEPT ![r].status = 500]
                /\ last' = Resp(reqs[r].tok, "send", 500, "Internal server error", reqs[r].reqUser)
                /\ UNCHANGED <<messages, user_usage>>
           ELSE IF q.user \notin DOMAIN users
           THEN \* the assistant row is in; FOREIGN KEY (user_id) of user_usage fails
                /\ messages' = Append(messages, assistantMessage)
                /\ reqs' = [reqs EXCEPT ![r].status = 500,
                                        ![r].trace = Append(@, "assistant_message")]
                /\ last' = Resp(reqs[r].tok, "send", 500, "Internal server error", reqs[r].reqUser)
                /\ UNCHANGED user_usage
           ELSE /\ messages' = Append(messages, assistantMessage)
                /\ user_usage' = UpsertUsage(user_usage, q.user, q.today, tokensUsed)
                /\ reqs' = [reqs EXCEPT ![r].status = 200, ![r].tokensUsed = tokensUsed,
                                        ![r].trace = @ \o <<"assistant_message", "usage", "respond">>]
                /\ last' = Resp(reqs[r].tok, "send", 200, "", reqs[r].reqUser)

\* router.delete('/conversations/:id')
DeleteConversation(tok, conversationId) ==
    LET gate == ChatGate(tok)
        found == OwnedBy(conversations, conversationId, gate.user.id)
        convs1 == Without(conversations, {conversationId})
    IN  /\ requests' = gate.map
        /\ admitted' = gate.log
        /\ UNCHANGED <<now, limiter, client, users, accounts, nextConvId, user_usage, config, billingTables, reqs>>
        /\ IF gate.status # 0
           THEN /\ last' = GateResp(tok, gate)
                /\ UNCHANGED <<conversations, messages>>
           ELSE IF ~found
           THEN /\ last' = Resp(tok, "delete_conversation", 404, "Conversation not found", gate.user)
                /\ UNCHANGED <<conversations, messages>>
           ELSE /\ conversations' = convs1
                /\ messages' = CascadeMessages(messages, convs1)
                /\ last' = Resp(tok, "delete_conversation", 200, "", gate.user)

\* a response carrying message rows
RespData(tok, by, user, rows) ==
    [Resp(tok, by, 200, "", user) EXCEPT !.data = rows]

\* SELECT ... FROM messages WHERE conversation_id = ? ORDER BY created_at ASC:
\* each row as its conversation, role and the request whose content it holds
MessagesOf(msgs, conv) ==
    LET rows == SelectSeq(msgs, LAMBDA m : m.conversation_id = conv)
    IN  [i \in 1..Len(rows) |->
           [conversation_id |-> conv, role |-> rows[i].role, req |-> rows[i].req]]

\* router.get('/conversations/:id/messages') of the chat router
GetMessages(tok, conversationId) ==
    LET gate == ChatGate(tok)
    IN  /\ requests' = gate.map
        /\ admitted' = gate.log
        /\ UNCHANGED <<now, limiter, client, store, reqs>>
        /\ last' = IF gate.status # 0
                   THEN GateResp(tok, gate)
                   ELSE IF ~OwnedBy(conversations, conversationId, gate.user.id)
                   THEN Resp(tok, "get_messages", 404, "Conversation not found", gate.user)
                   ELSE RespData(tok, "get_messages", gate.user, MessagesOf(messages, conversationId))

\* ---------------------------------------------------------------- user router
\* router.use(authenticateToken) of the user router
UserGate(tok) ==
    LET auth == authenticateToken(tok)
    IN  [by |-> IF auth.status # 0 THEN "authenticateToken" ELSE "",
         status |-> auth.status, error |-> auth.error, user |-> auth.user]

\* router.put('/conversations/:id/title'); title "" is a missing or blank title
PutConversationTitle(tok, conversationId, title) ==
    LET gate == UserGate(tok)
    IN  /\ UNCHANGED <<middleware, client, users, accounts, nextConvId, messages, user_usage, config, billingTables>>
        /\ IF gate.status # 0
           THEN /\ last' = Resp(tok, gate.by, gate.status, gate.error, gate.user)
                /\ UNCHANGED conversations
           ELSE IF title = ""
           THEN /\ last' = Resp(tok, "put_title", 400, "Title is required", gate.user)
                /\ UNCHANGED conversations
           ELSE IF ~OwnedBy(conversations, conversationId, gate.user.id)
           THEN /\ last' = Resp(tok, "put_title", 404, "Conversation not found", gate.user)
                /\ UNCHANGED conversations
           ELSE /\ conversations' = [conversations EXCEPT ![conversationId].title = title]
                /\ last' = Resp(tok, "put_title", 200, "", gate.user)

\* router.get('/conversations/:id/export')
GetConversationExport(tok, conversationId) ==
    LET gate == UserGate(tok)
    IN  /\ UNCHANGED <<middleware, client, store>>
        /\ last' = IF gate.status # 0
                   THEN Resp(tok, gate.by, gate.status, gate.error, gate.user)
                   ELSE IF ~OwnedBy(conversations, conversationId, gate.user.id)
                   THEN Resp(tok, "export_conversation", 404, "Conversation not found", gate.user)
                   ELSE RespData(tok, "export_conversation", gate.user,
                                 MessagesOf(messages, conversationId))

\* SELECT id ... FROM conversations WHERE user_id = ? without the WHERE
ConversationsOf_All(convs, userId) == DOMAIN convs

\* SELECT id ... FROM conversations WHERE user_id = ?
ConversationsOf(convs, userId) == {c \in DOMAIN convs : convs[c].user_id = userId}

\* conversations.map(conv => messages of conv) of GET /export, the conversations
\* ORDER BY created_at DESC
RECURSIVE ExportRows(_, _)
ExportRows(msgs, ids) ==
    IF ids = {} THEN <<>>
    ELSE LET c == CHOOSE x \in ids : \A y \in ids : y <= x
         IN  MessagesOf(msgs, c) \o ExportRows(msgs, ids \ {c})

\* router.get('/export')
GetExport(tok) ==
    LET gate == UserGate(tok)
    IN  /\ UNCHANGED <<middleware, client, store>>
        /\ last' = IF gate.status # 0
                   THEN Resp(tok, gate.by, gate.status, gate.error, gate.user)
                   ELSE RespData(tok, "export", gate.user,
                                 ExportRows(messages, ConversationsOf(conversations, gate.user.id)))

\* the preferences objects of PUT /preferences with every field set to a value
\* the schema accepts
ValidPreferences ==
    [theme : {"light", "dark"}, language : {"en"}, notifications : BOOLEAN, autoSave : BOOLEAN,
     defaultProvider : {"google", "openrouter"}, defaultModel : {"gemini-pro"}]

\* a body without preferences
NoPreferences == [theme |-> "absent"]

\* the bodies of PUT /preferences: valid preferences, a theme the CHECK of the
\* table refuses, an empty language, and a body without preferences
PreferencesBodies ==
    ValidPreferences
      \cup {[theme |-> "blue", language |-> "en", notifications |-> TRUE, autoSave |-> TRUE,
              defaultProvider |-> "google", defaultModel |-> "gemini-pro"],
             [theme |-> "dark", language |-> "", notifications |-> FALSE, autoSave |-> FALSE,
              defaultProvider |-> "google", defaultModel |-> "gemini-pro"],
             NoPreferences}

\* value || fallback for strings
OrElse(value, fallback) == IF value = "" THEN fallback ELSE value

\* the row PUT /preferences binds to its INSERT OR REPLACE
PreferencesRow(userId, preferences) ==
    [user_id |-> userId,
     theme |-> OrElse(preferences.theme, "light"),
     language |-> OrElse(preferences.language, "en"),
     notifications |-> IF preferences.notifications THEN 1 ELSE 0,
     auto_save |-> IF preferences.autoSave THEN 1 ELSE 0,
     default_provider |-> OrElse(preferences.defaultProvider, "google"),
     default_model |-> OrElse(preferences.defaultModel, "gemini-pro")]

\* the row GET /preferences inserts for a user without one
DefaultPreferencesRow(userId) ==
    [user_id |-> userId, theme |-> "light", language |-> "en", notifications |-> 1,
     auto_save |-> 1, default_provider |-> "google", default_model |-> "gemini-pro"]

\* the CHECK constraints of user_preferences
PreferencesChecks(row) ==
    /\ row.theme \in {"light", "dark", "system"}
    /\ row.default_provider \in {"google", "openrouter"}

\* SELECT ... FROM user_preferences WHERE user_id = ?
PreferencesOf(rows, userId) == SelectSeq(rows, LAMBDA row : row.user_id = userId)

\* INSERT OR REPLACE with UNIQUE(user_id): the conflicting rows go, the row is added
InsertOrReplace(rows, row) ==
    Append(SelectSeq(rows, LAMBDA old : old.user_id # row.user_id), row)

\* the preferences object GET /preferences answers with, from the table as it is
PreferencesResponse(rows, userId) ==
    LET found == PreferencesOf(rows, userId)
    IN  IF found = <<>>
        THEN [theme |-> "light", language |-> "en", notifications |-> TRUE, auto_save |-> TRUE,
              default_provider |-> "google", default_model |-> "gemini-pro"]
        ELSE [theme |-> found[1].theme, language |-> found[1].language,
              notifications |-> found[1].notifications # 0,
              autoSave |-> found[1].auto_save # 0,
              defaultProvider |-> found[1].default_provider,
              defaultModel |-> found[1].default_model]

\* router.get('/preferences')
GetPreferences(tok) ==
    LET gate == UserGate(tok)
        userId == gate.user.id
    IN  /\ UNCHANGED <<middleware, client, users, nextUserId, creating, chatTables, config, billingTables>>
        /\ IF gate.status # 0
           THEN /\ last' = Resp(tok, gate.by, gate.status, gate.error, gate.user)
                /\ UNCHANGED user_preferences
           ELSE /\ user_preferences' = IF PreferencesOf(user_preferences, userId) = <<>>
                                       THEN Append(user_preferences, DefaultPreferencesRow(userId))
                                       ELSE user_preferences
                /\ last' = RespData(tok, "get_preferences", gate.user,
                                    <<PreferencesResponse(user_preferences, userId)>>)

\* router.put('/preferences')
PutPreferences(tok, preferences) ==
    LET gate == UserGate(tok)
        userId == gate.user.id
        row == PreferencesRow(userId, preferences)
    IN  /\ UNCHANGED <<middleware, client, users, nextUserId, creating, chatTables, config, billingTables>>
        /\ IF gate.status # 0
           THEN /\ last' = Resp(tok, gate.by, gate.status, gate.error, gate.user)
                /\ UNCHANGED user_preferences
           ELSE IF preferences = NoPreferences
           THEN /\ last' = Resp(tok, "put_preferences", 400, "Preferences data is required", gate.user)
                /\ UNCHANGED user_preferences
           ELSE IF ~PreferencesChecks(row)
           THEN \* the INSERT fails a CHECK constraint: the catch answers
                /\ last' = Resp(tok, "put_preferences", 500, "Internal server error", gate.user)
                /\ UNCHANGED user_preferences
           ELSE /\ user_preferences' = InsertOrReplace(user_preferences, row)
                /\ last' = Resp(tok, "put_preferences", 200, "", gate.user)

\* ---------------------------------------------------------------- admin router
\* DELETE /users/:id without the test for the requester's own id
DeletesSelf_Never(userId, user) == FALSE

\* userId === req.user.id of DELETE /users/:id
DeletesSelf(userId, user) == userId = user.id

\* router.delete('/users/:id'), with the ON DELETE CASCADE of the schema
AdminDeleteUser(tok, userId) ==
    LET gate == AdminGate(tok)
        convs1 == Without(conversations, {c \in DOMAIN conversations : conversations[c].user_id = userId})
    IN  /\ UNCHANGED <<now, limiter, client, requests, admitted, reqs, nextUserId, creating, nextConvId,
                       config, subscription_plans, nextPlanId, ai_models>>
        /\ IF gate.status # 0
           THEN /\ last' = Resp(tok, gate.by, gate.status, gate.error, gate.user)
                /\ UNCHANGED <<users, user_preferences, conversations, messages, user_usage,
                               user_subscriptions, user_credits>>
           ELSE IF DeletesSelf(userId, gate.user)
           THEN /\ last' = Resp(tok, "delete_user", 400, "Cannot delete your own account", gate.user)
                /\ UNCHANGED <<users, user_preferences, conversations, messages, user_usage,
                               user_subscriptions, user_credits>>
           ELSE IF userId \notin DOMAIN users
           THEN /\ last' = Resp(tok, "delete_user", 404, "User not found", gate.user)
                /\ UNCHANGED <<users, user_preferences, conversations, messages, user_usage,
                               user_subscriptions, user_credits>>
           ELSE /\ users' = Without(users, {userId})
                /\ user_preferences' = SelectSeq(user_preferences, LAMBDA row : row.user_id # userId)
                /\ conversations' = convs1
                /\ messages' = CascadeMessages(messages, convs1)
                /\ user_usage' = SelectSeq(user_usage, LAMBDA row : row.user_id # userId)
                /\ user_subscriptions' = Without(user_subscriptions,
                       {k \in DOMAIN user_subscriptions : user_subscriptions[k].user_id = userId})
                /\ user_credits' = Without(user_credits, {userId})
                /\ last' = Resp(tok, "delete_user", 200, "", gate.user)

\* the changes PUT /users/:id accepts (updateUserSchema), "unset" for a field left out
UserUpdates == {[email |-> "unset", role |-> "unset", is_active |-> "unset"],
                [email |-> "unset", role |-> "user", is_active |-> "unset"],
                [email |-> "unset", role |-> "admin", is_active |-> "unset"],
                [email |-> "unset", role |-> "unset", is_active |-> "false"],
                [email |-> "unset", role |-> "unset", is_active |-> "true"]}

\* the changes of the email alone
EmailUpdates == {[email |-> e, role |-> "unset", is_active |-> "unset"] : e \in Emails}

\* the UPDATE users SET ... of PUT /users/:id applied to one row
UpdateUserRow(row, upd) ==
    [email |-> IF upd.email = "unset" THEN row.email ELSE upd.email,
     role |-> IF upd.role = "unset" THEN row.role ELSE upd.role,
     is_active |-> IF upd.is_active = "unset" THEN row.is_active ELSE upd.is_active = "true"]

\* a users table without the UNIQUE constraint on email
UniqueEmail_Unchecked(table, id, email) == TRUE

\* email TEXT UNIQUE NOT NULL: the row id may hold email
UniqueEmail(table, id, email) ==
    \A u \in DOMAIN table \ {id} : table[u].email # email

\* router.put('/users/:id')
AdminPutUser(tok, userId, upd) ==
    LET gate == AdminGate(tok)
    IN  /\ UNCHANGED <<middleware, client, accounts, chatTables, config, billingTables>>
        /\ IF gate.status # 0
           THEN /\ last' = Resp(tok, gate.by, gate.status, gate.error, gate.user)
                /\ UNCHANGED users
           ELSE IF upd.email = "unset" /\ upd.role = "unset" /\ upd.is_active = "unset"
           THEN /\ last' = Resp(tok, "put_user", 400, "No valid fields to update", gate.user)
                /\ UNCHANGED users
           ELSE IF userId \notin DOMAIN users
           THEN /\ last' = Resp(tok, "put_user", 404, "User not found", gate.user)
                /\ UNCHANGED users
           ELSE IF upd.email # "unset" /\ ~UniqueEmail(users, userId, upd.email)
           THEN \* the UPDATE fails the UNIQUE constraint: the catch answers
                /\ last' = Resp(tok, "put_user", 500, "Internal server error", gate.user)
                /\ UNCHANGED users
           ELSE /\ users' = [users EXCEPT ![userId] = UpdateUserRow(@, upd)]
                /\ last' = Resp(tok, "put_user", 200, "", gate.user)

\* the bodies of POST /users: an email and a role, "unset" for a role left out
CreateBodies == [email : Emails \cup {InvalidEmail}, role : {"unset", "admin"}]

\* createUserSchema
createUserSchema(body) == body.email # InvalidEmail

\* SELECT id FROM users WHERE email = ?
existingUser(table, email) == \E u \in DOMAIN table : table[u].email = email

\* router.post('/users'), up to the await of bcrypt.hash
AdminPostUser(tok, body) ==
    LET gate == AdminGate(tok)
        entry == [tok |-> tok, user |-> gate.user, email |-> body.email,
                  role |-> IF body.role = "unset" THEN "user" ELSE body.role]
    IN  /\ UNCHANGED <<middleware, client, users, nextUserId, user_preferences, chatTables, config,
                       billingTables>>
        /\ IF gate.status # 0
           THEN /\ last' = Resp(tok, gate.by, gate.status, gate.error, gate.user)
                /\ UNCHANGED creating
           ELSE IF ~createUserSchema(body)
           THEN /\ last' = Resp(tok, "post_user", 400, "validation", gate.user)
                /\ UNCHANGED creating
           ELSE IF existingUser(users, body.email)
           THEN /\ last' = Resp(tok, "post_user", 409, "User with this email already exists", gate.user)
                /\ UNCHANGED creating
           ELSE /\ Len(creating) < MaxCreating
                /\ nextUserId <= MaxUserId
                /\ creating' = Append(creating, entry)
                /\ last' = Resp(tok, "post_user", 0, "awaiting", gate.user)

\* router.post('/users') after the await: the INSERT INTO users
AdminInsertUser(k) ==
    /\ k \in 1..Len(creating)
    /\ LET c == creating[k]
       IN  /\ creating' = SubSeq(creating, 1, k - 1) \o SubSeq(creating, k + 1, Len(creating))
           /\ UNCHANGED <<middleware, client, user_preferences, chatTables, config, billingTables>>
           /\ IF ~UniqueEmail(users, nextUserId, c.email)
              THEN \* the INSERT fails the UNIQUE constraint: the catch answers
                   /\ last' = Resp(c.tok, "post_user", 500, "Internal server error", c.user)
                   /\ UNCHANGED <<users, nextUserId>>
              ELSE /\ users' = With(users, nextUserId,
                                    [email |-> c.email, role |-> c.role, is_active |-> TRUE])
                   /\ nextUserId' = nextUserId + 1
                   /\ last' = Resp(c.tok, "post_user", 201, "", c.user)

\* router.put('/settings/:key') for the key max_messages_per_day; NULL is a body without value
AdminPutSetting(tok, value) ==
    LET gate == AdminGate(tok)
    IN  /\ UNCHANGED <<middleware, client, users, accounts, chatTables, api_keys, billingTables>>
        /\ IF gate.status # 0
           THEN /\ last' = Resp(tok, gate.by, gate.status, gate.error, gate.user)
                /\ UNCHANGED settings
           ELSE IF value = NULL
           THEN /\ last' = Resp(tok, "put_setting", 400, "Value is required", gate.user)
                /\ UNCHANGED settings
           ELSE /\ settings' = value
                /\ last' = Resp(tok, "put_setting", 200, "", gate.user)

\* router.post('/api-keys'); a provider outside apiKeySchema is answered 400
AdminPostApiKey(tok, provider) ==
    LET gate == AdminGate(tok)
    IN  /\ UNCHANGED <<middleware, client, users, accounts, chatTables, settings, billingTables>>
        /\ IF gate.status # 0
           THEN /\ last' = Resp(tok, gate.by, gate.status, gate.error, gate.user)
                /\ UNCHANGED api_keys
           ELSE IF provider \notin Providers
           THEN /\ last' = Resp(tok, "post_api_key", 400, "validation", gate.user)
                /\ UNCHANGED api_keys
           ELSE /\ api_keys' = api_keys \cup {provider}
                /\ last' = Resp(tok, "post_api_key", 201, "", gate.user)

\* router.delete('/api-keys/:id') of the key of a provider
AdminDeleteApiKey(tok, provider) ==
    LET gate == AdminGate(tok)
    IN  /\ UNCHANGED <<middleware, client, users, accounts, chatTables, settings, billingTables>>
        /\ IF gate.status # 0
           THEN /\ last' = Resp(tok, gate.by, gate.status, gate.error, gate.user)
                /\ UNCHANGED api_keys
           ELSE IF provider \notin api_keys
           THEN /\ last' = Resp(tok, "delete_api_key", 404, "API key not found", gate.user)
                /\ UNCHANGED api_keys
           ELSE /\ api_keys' = api_keys \ {provider}
                /\ last' = Resp(tok, "delete_api_key", 200, "", gate.user)

\* router.get('/analytics') of the admin router: reads user_usage, users, messages
AdminGetAnalytics(tok) ==
    LET gate == AdminGate(tok)
    IN  /\ UNCHANGED <<middleware, client, store>>
        /\ last' = IF gate.status # 0
                   THEN Resp(tok, gate.by, gate.status, gate.error, gate.user)
                   ELSE Resp(tok, "get_analytics", 200, "", gate.user)

\* ---------------------------------------------------------------- /admin/* billing
\* the bodies of POST /admin/plans: id 0 is a body without id, name "" one without name
PlanBodies == {[id |-> 0, name |-> "", message_limit |-> NULL],
               [id |-> 0, name |-> "Team", message_limit |-> NULL],
               [id |-> 2, name |-> "Premium", message_limit |-> 10]}

\* router.post('/admin/plans')
AdminPostPlan(tok, body) ==
    LET gate == AdminGate(tok)
        row == [name |-> body.name, message_limit |-> body.message_limit]
    IN  /\ UNCHANGED <<middleware, client, users, accounts, chatTables, config, user_subscriptions,
                       user_credits, ai_models>>
        /\ IF gate.status # 0
           THEN /\ last' = Resp(tok, gate.by, gate.status, gate.error, gate.user)
                /\ UNCHANGED <<subscription_plans, nextPlanId>>
           ELSE IF body.name = ""
           THEN /\ last' = Resp(tok, "post_plan", 400, "Missing required fields", gate.user)
                /\ UNCHANGED <<subscription_plans, nextPlanId>>
           ELSE IF body.id # 0
           THEN /\ subscription_plans' = IF body.id \in DOMAIN subscription_plans
                                         THEN [subscription_plans EXCEPT ![body.id] = row]
                                         ELSE subscription_plans
                /\ last' = Resp(tok, "post_plan", 200, "Plan updated successfully", gate.user)
                /\ UNCHANGED nextPlanId
           ELSE /\ nextPlanId <= MaxPlans
                /\ subscription_plans' = With(subscription_plans, nextPlanId, row)
                /\ nextPlanId' = nextPlanId + 1
                /\ last' = Resp(tok, "post_plan", 200, "Plan created successfully", gate.user)

\* DELETE /admin/plans/:id without the count of active subscriptions
activeSubscriptions_None(subs, id) == {}

\* SELECT COUNT(*) FROM user_subscriptions WHERE plan_id = ? AND status = 'active'
activeSubscriptions(subs, id) ==
    {k \in DOMAIN subs : subs[k].plan_id = id /\ subs[k].status = "active"}

\* router.delete('/admin/plans/:id')
AdminDeletePlan(tok, id) ==
    LET gate == AdminGate(tok)
        referenced == \E k \in DOMAIN user_subscriptions : user_subscriptions[k].plan_id = id
    IN  /\ UNCHANGED <<middleware, client, users, accounts, chatTables, config, nextPlanId, user_subscriptions,
                       user_credits, ai_models>>
        /\ IF gate.status # 0
           THEN /\ last' = Resp(tok, gate.by, gate.status, gate.error, gate.user)
                /\ UNCHANGED subscription_plans
           ELSE IF Cardinality(activeSubscriptions(user_subscriptions, id)) > 0
           THEN /\ last' = Resp(tok, "delete_plan", 400,
                                "Cannot delete plan with active subscriptions. Deactivate it instead.",
                                gate.user)
                /\ UNCHANGED subscription_plans
           ELSE IF referenced /\ id \in DOMAIN subscription_plans
           THEN \* FOREIGN KEY (plan_id) of user_subscriptions fails: the catch answers
                /\ last' = Resp(tok, "delete_plan", 500, "Failed to delete subscription plan", gate.user)
                /\ UNCHANGED subscription_plans
           ELSE /\ subscription_plans' = Without(subscription_plans, {id})
                /\ last' = Resp(tok, "delete_plan", 200, "", gate.user)

\* router.put('/admin/subscriptions/:id')
AdminPutSubscription(tok, id, status) ==
    LET gate == AdminGate(tok)
    IN  /\ UNCHANGED <<middleware, client, users, accounts, chatTables, config, subscription_plans, nextPlanId,
                       user_credits, ai_models>>
        /\ IF gate.status # 0
           THEN /\ last' = Resp(tok, gate.by, gate.status, gate.error, gate.user)
                /\ UNCHANGED user_subscriptions
           ELSE /\ user_subscriptions' = IF id \in DOMAIN user_subscriptions
                                         THEN [user_subscriptions EXCEPT ![id].status = status]
                                         ELSE user_subscriptions
                /\ last' = Resp(tok, "put_subscription", 200, "", gate.user)

\* the bodies of POST /admin/models that update the row of a model
ModelBodies == {[model_name |-> "openai/gpt-4", is_active |-> FALSE, required_plan |-> "premium"],
                [model_name |-> "openai/gpt-4", is_active |-> TRUE, required_plan |-> "free"]}

\* router.post('/admin/models') with the id of the row of body.model_name
AdminPostModel(tok, body) ==
    LET gate == AdminGate(tok)
    IN  /\ UNCHANGED <<middleware, client, users, accounts, chatTables, config, subscription_plans, nextPlanId,
                       user_subscriptions, user_credits>>
        /\ IF gate.status # 0
           THEN /\ last' = Resp(tok, gate.by, gate.status, gate.error, gate.user)
                /\ UNCHANGED ai_models
           ELSE /\ ai_models' = IF body.model_name \in DOMAIN ai_models
                                THEN [ai_models EXCEPT ![body.model_name].is_active = body.is_active,
                                                       ![body.model_name].required_plan = body.required_plan]
                                ELSE ai_models
                /\ last' = Resp(tok, "post_model", 200, "Model updated successfully", gate.user)

\* router.delete('/admin/models/:id') with the id of the row of model_name
AdminDeleteModel(tok, model_name) ==
    LET gate == AdminGate(tok)
    IN  /\ UNCHANGED <<middleware, client, users, accounts, chatTables, config, subscription_plans, nextPlanId,
                       user_subscriptions, user_credits>>
        /\ IF gate.status # 0
           THEN /\ last' = Resp(tok, gate.by, gate.status, gate.error, gate.user)
                /\ UNCHANGED ai_models
           ELSE /\ ai_models' = Without(ai_models, {model_name})
                /\ last' = Resp(tok, "delete_model", 200, "", gate.user)

\* ---------------------------------------------------------------- the client chat store
\* the optimistic user message of sendMessage call n
userMessage(n) == [role |-> "user", call |-> n]

\* the assistant message sendMessage call n builds from the response
aiMessage(n) == [role |-> "assistant", call |-> n]

\* the messages of a conversation as GET /conversations/:id/messages returns them
ServerMessages == <<[role |-> "user", call |-> 0], [role |-> "assistant", call |-> 0]>>

\* state.messages.slice(0, -1) in the catch of sendMessage
RemoveLast(msgs) == SubSeq(msgs, 1, Len(msgs) - 1)

\* sendMessage, up to the await of fetch
sendMessage(n, conversationId) ==
    /\ sends[n].status = "idle"
    /\ \A k \in 1..(n - 1) : sends[k].status # "idle"
    /\ chatStore' = [chatStore EXCEPT !.isSending = TRUE,
                                      !.messages = Append(@, userMessage(n))]
    /\ sends' = [sends EXCEPT ![n] = [status |-> "awaiting", conversationId |-> conversationId]]
    /\ UNCHANGED <<middleware, store, last, fetches>>

\* sendMessage after the await: the response is ok; without a conversationId it
\* starts loadConversations, which sets isLoading
SendResolves(n) ==
    /\ sends[n].status = "awaiting"
    /\ chatStore' = [chatStore EXCEPT !.isSending = FALSE,
                                      !.messages = Append(@, aiMessage(n)),
                                      !.isLoading = IF sends[n].conversationId = NULL THEN TRUE ELSE @]
    /\ sends' = [sends EXCEPT ![n].status = "ok"]
    /\ fetches' = IF sends[n].conversationId = NULL
                  THEN [fetches EXCEPT !.conversations = @ + 1]
                  ELSE fetches
    /\ UNCHANGED <<middleware, store, last>>

\* sendMessage after the await: fetch threw or the response is not ok
SendRejects(n) ==
    /\ sends[n].status = "awaiting"
    /\ chatStore' = [chatStore EXCEPT !.isSending = FALSE,
                                      !.messages = RemoveLast(@)]
    /\ sends' = [sends EXCEPT ![n].status = "failed"]
    /\ UNCHANGED <<middleware, store, last, fetches>>

\* loadMessages, up to the await of fetch
loadMessages ==
    /\ fetches.messages < MaxFetches
    /\ chatStore' = [chatStore EXCEPT !.isLoading = TRUE]
    /\ fetches' = [fetches EXCEPT !.messages = @ + 1]
    /\ UNCHANGED <<middleware, store, last, sends>>

\* loadMessages after the await: the response is ok and carries rows
LoadMessagesResolves(rows) ==
    /\ fetches.messages > 0
    /\ chatStore' = [chatStore EXCEPT !.messages = rows, !.isLoading = FALSE]
    /\ fetches' = [fetches EXCEPT !.messages = @ - 1]
    /\ UNCHANGED <<middleware, store, last, sends>>

\* loadMessages after the await: fetch threw or the response is not ok
LoadMessagesRejects ==
    /\ fetches.messages > 0
    /\ chatStore' = [chatStore EXCEPT !.isLoading = FALSE]
    /\ fetches' = [fetches EXCEPT !.messages = @ - 1]
    /\ UNCHANGED <<middleware, store, last, sends>>

\* loadConversations after the await, on either outcome
LoadConversationsSettles ==
    /\ fetches.conversations > 0
    /\ chatStore' = [chatStore EXCEPT !.isLoading = FALSE]
    /\ fetches' = [fetches EXCEPT !.conversations = @ - 1]
    /\ UNCHANGED <<middleware, store, last, sends>>

\* ---------------------------------------------------------------- the limiter alone
\* req.user?.id || req.ip: identity 0 is the address of a request without req.user
Identity(user, ip) == IF user.id # 0 THEN user.id ELSE ip

\* the middleware userRateLimit(maxRequests, windowMs) returns, serving a request
RateLimited(user) ==
    LET id == Identity(user, 0)
        rl == userRateLimit(limiter.maxRequests, limiter.windowMs, requests, id, now)
    IN  /\ requests' = rl.map
        /\ admitted' = Admit(rl, id)
        /\ last' = IF rl.admit THEN Resp(NoToken, "next", 0, "", user)
                   ELSE [Resp(NoToken, "userRateLimit", 429,
                              "Too many requests. Please try again later.", user)
                            EXCEPT !.retryAfter = rl.retryAfter]
        /\ UNCHANGED <<now, limiter, client, store, reqs>>

LimiterTick == Clock(MaxClock)

\* ---------------------------------------------------------------- specification
\* The store after initDatabase, with users registered, API keys and the daily
\* quota configured by the administrator, and the billing rows the payment
\* processor wrote: user 1 holds an active Premium subscription and a credit balance.
InitStore ==
    /\ now = 0
    /\ users = [u \in UserIds |-> [email |-> EmailOf(u),
                                    role |-> IF u = 1 THEN "admin" ELSE "user", is_active |-> TRUE]]
    /\ nextUserId = NumUsers + 1
    /\ creating = <<>>
    /\ user_preferences = <<>>
    /\ conversations = <<>>
    /\ nextConvId = 1
    /\ messages = <<>>
    /\ user_usage = <<>>
    /\ settings = MaxQuota
    /\ api_keys \in {Providers, {"openrouter"}}
    /\ subscription_plans = (1 :> [name |-> "Free", message_limit |-> 10]) @@
                            (2 :> [name |-> "Premium", message_limit |-> NULL]) @@
                            (3 :> [name |-> "Pay-per-Message", message_limit |-> NULL])
    /\ nextPlanId = 4
    /\ user_subscriptions = (1 :> [user_id |-> 1, plan_id |-> 2, status |-> "active"])
    /\ user_credits = (1 :> [credits |-> InitCredits, total_used |-> 0])
    /\ ai_models = ("gemini-pro" :> [provider |-> "google", required_plan |-> "free", is_active |-> TRUE]) @@
                   ("openai/gpt-4" :> [provider |-> "openrouter", required_plan |-> "premium", is_active |-> TRUE])
    /\ requests = <<>>
    /\ admitted = [i \in Identities |-> <<>>]
    /\ reqs = <<>>
    /\ last = Resp(NoToken, "none", 0, "", NoUser)
    /\ chatStore = [messages |-> <<>>, isLoading |-> FALSE, isSending |-> FALSE]
    /\ sends = [n \in 1..MaxCalls |-> [status |-> "idle", conversationId |-> NULL]]
    /\ fetches = [messages |-> 0, conversations |-> 0]

\* the chat router's limiter: router.use(userRateLimit(30, 60000)), scaled down
Init ==
    /\ InitStore
    /\ limiter = [maxRequests |-> ChatMaxRequests, windowMs |-> ChatWindowMs]

Next ==
    \/ Tick
    \/ \E tok \in Tokens, body \in SendBodies : PostSend(tok, body)
    \/ \E r \in 1..MaxSends : ProviderFail(r)
    \/ \E r \in 1..MaxSends, t \in 1..MaxTokens : ProviderReturn(r, t)
    \/ \E tok \in Tokens, c \in 1..MaxSends : DeleteConversation(tok, c)
    \/ \E tok \in Tokens, u \in UserIds : AdminDeleteUser(tok, u)

Spec == Init /\ [][Next]_vars

\* a request to the admin router or to an /admin/* billing handler
AdminRequest(tok) ==
    \/ \E u \in UserIds, upd \in UserUpdates : AdminPutUser(tok, u, upd)
    \/ \E u \in UserIds : AdminDeleteUser(tok, u)
    \/ \E v \in {NULL, 0} : AdminPutSetting(tok, v)
    \/ \E p \in {"google", "other"} : AdminPostApiKey(tok, p)
    \/ AdminDeleteApiKey(tok, "google")
    \/ AdminGetAnalytics(tok)
    \/ \E body \in PlanBodies : AdminPostPlan(tok, body)
    \/ \E id \in {2, 3} : AdminDeletePlan(tok, id)
    \/ \E st \in {"active", "cancelled"} : AdminPutSubscription(tok, 1, st)
    \/ \E body \in ModelBodies : AdminPostModel(tok, body)
    \/ AdminDeleteModel(tok, "openai/gpt-4")

NextAdmin == \E tok \in Tokens : AdminRequest(tok)

SpecAdmin == Init /\ [][NextAdmin]_vars

\* a limiter made by userRateLimit(maxRequests, windowMs), for any arguments
InitLimiter ==
    /\ InitStore
    /\ api_keys = Providers
    /\ limiter \in [maxRequests : 0..MaxLimit, windowMs : 1..MaxWindow]

NextLimiter ==
    \/ LimiterTick
    \/ \E u \in UserIds : RateLimited([id |-> u, role |-> users[u].role, is_active |-> TRUE])
    \/ RateLimited(NoUser)

SpecLimiter == InitLimiter /\ [][NextLimiter]_vars

\* a limiter that admits at least one request per window, as the chat router's
\* userRateLimit(30, 60000) does
InitRetry ==
    /\ InitStore
    /\ api_keys = Providers
    /\ limiter \in [maxRequests : 1..MaxLimit, windowMs : 1..MaxWindow]

NextRetry ==
    \/ LimiterTick
    \/ \E u \in UserIds : RateLimited([id |-> u, role |-> users[u].role, is_active |-> TRUE])
    \/ RateLimited(NoUser)

SpecRetry == InitRetry /\ [][NextRetry]_vars

\* POST /send while the administrator changes max_messages_per_day
InitQuota ==
    /\ Init
    /\ api_keys = Providers

NextQuota ==
    \/ Tick
    \/ \E tok \in Tokens, body \in SendBodies \cup AbsentIdBodies : PostSend(tok, body)
    \/ \E r \in 1..MaxSends : ProviderFail(r)
    \/ \E r \in 1..MaxSends, t \in 1..MaxTokens : ProviderReturn(r, t)
    \/ \E tok \in Tokens, v \in {NULL} \cup 0..MaxQuota : AdminPutSetting(tok, v)

SpecQuota == InitQuota /\ [][NextQuota]_vars

\* the conversations of the users: sends, reads, exports, renames and deletes
InitUser ==
    /\ Init
    /\ api_keys = Providers

\* the sends of this specification: to one provider, into any conversation
UserBodies == {body \in ValidBodies : body.provider = "google"}

NextUser ==
    \/ Tick
    \/ \E tok \in ValidTokens, body \in UserBodies : PostSend(tok, body)
    \/ \E r \in 1..MaxSends, t \in 1..MaxTokens : ProviderReturn(r, t)
    \/ \E tok \in Tokens, c \in 1..MaxSends : DeleteConversation(tok, c)
    \/ \E tok \in ValidTokens, c \in 1..MaxSends : GetMessages(tok, c)
    \/ \E tok \in Tokens, c \in 1..MaxSends, title \in {"", "renamed"} :
          PutConversationTitle(tok, c, title)
    \/ \E tok \in ValidTokens, c \in 1..MaxSends : GetConversationExport(tok, c)
    \/ \E tok \in ValidTokens : GetExport(tok)

SpecUser == InitUser /\ [][NextUser]_vars

\* the three routers while administrators deactivate, reactivate, promote,
\* demote and delete users
InitRevoke ==
    /\ Init
    /\ api_keys = Providers

\* the sends of this specification: to one provider, each into a new conversation
RevokeBodies == {body \in AbsentIdBodies : body.provider = "google"}

NextRevoke ==
    \/ Tick
    \/ \E tok \in ValidTokens, body \in RevokeBodies : PostSend(tok, body)
    \/ \E r \in 1..MaxSends, t \in 1..MaxTokens : ProviderReturn(r, t)
    \/ \E tok \in ValidTokens : GetExport(tok)
    \/ \E tok \in ValidTokens, u \in UserIds, upd \in UserUpdates : AdminPutUser(tok, u, upd)
    \/ \E tok \in ValidTokens, u \in UserIds : AdminDeleteUser(tok, u)
    \/ \E tok \in ValidTokens : AdminPutSetting(tok, 0)

SpecRevoke == InitRevoke /\ [][NextRevoke]_vars

\* the preferences of the users while an administrator deletes users
InitPreferences ==
    /\ Init
    /\ api_keys = Providers

NextPreferences ==
    \/ \E tok \in Tokens : GetPreferences(tok)
    \/ \E tok \in Tokens, preferences \in PreferencesBodies : PutPreferences(tok, preferences)
    \/ \E tok \in ValidTokens, u \in UserIds : AdminDeleteUser(tok, u)

SpecPreferences == InitPreferences /\ [][NextPreferences]_vars

\* the client chat store with sends and loads in flight
InitClient ==
    /\ Init
    /\ api_keys = Providers

NextClient ==
    \/ \E n \in 1..MaxCalls, conversationId \in {NULL, 1} : sendMessage(n, conversationId)
    \/ \E n \in 1..MaxCalls : SendResolves(n)
    \/ \E n \in 1..MaxCalls : SendRejects(n)
    \/ loadMessages
    \/ \E rows \in {<<>>, ServerMessages} : LoadMessagesResolves(rows)
    \/ LoadMessagesRejects
    \/ LoadConversationsSettles

SpecClient == InitClient /\ [][NextClient]_vars

\* the user management of the admin router: create, update, delete
InitAccounts ==
    /\ Init
    /\ api_keys = Providers

NextAccounts ==
    \/ \E tok \in ValidTokens, body \in CreateBodies : AdminPostUser(tok, body)
    \/ \E k \in 1..MaxCreating : AdminInsertUser(k)
    \/ \E tok \in ValidTokens, u \in 1..MaxUserId, upd \in UserUpdates \cup EmailUpdates :
          AdminPutUser(tok, u, upd)
    \/ \E tok \in ValidTokens, u \in 1..MaxUserId : AdminDeleteUser(tok, u)

SpecAccounts == InitAccounts /\ [][NextAccounts]_vars

\* ---------------------------------------------------------------- claims
Dates == 0..today(MaxTime)

\* the POST /send requests of user u that read the date d and answered success
SuccessfulSends(u, d) ==
    {r \in 1..Len(reqs) : reqs[r].user = u /\ reqs[r].today = d /\ reqs[r].status = 200}

RECURSIVE SumTokens(_)
SumTokens(S) ==
    IF S = {} THEN 0
    ELSE LET r == CHOOSE r \in S : TRUE IN reqs[r].tokensUsed + SumTokens(S \ {r})

\* whether user u holds an active subscription to the plan called name
HoldsPlan(u, name) ==
    \E k \in DOMAIN user_subscriptions :
        /\ user_subscriptions[k].user_id = u
        /\ user_subscriptions[k].status = "active"
        /\ user_subscriptions[k].plan_id \in DOMAIN subscription_plans
        /\ subscription_plans[user_subscriptions[k].plan_id].name = name

\* C1: every row of messages belongs to a conversation whose user_id is the
\* user whose request inserted it.
C1_MessagesInOwnConversation ==
    \A i \in 1..Len(messages) :
        /\ messages[i].conversation_id \in DOMAIN conversations
        /\ conversations[messages[i].conversation_id].user_id = messages[i].by

\* C2: with max_messages_per_day fixed, no user_usage row counts more
\* messages_sent than the setting allows.
C2_QuotaNeverExceeded ==
    \A i \in 1..Len(user_usage) : user_usage[i].messages_sent <= settings

\* C3: user_usage has at most one row per (user_id, date); the row exists once a
\* send of that user and date succeeded, its messages_sent is the number of those
\* sends and its tokens_used the sum of their tokensUsed.
C3_UsageMatchesSends ==
    \A u \in DOMAIN users, d \in Dates :
        LET rows == UsageRows(user_usage, u, d)
            ok == SuccessfulSends(u, d)
        IN  /\ Cardinality(rows) <= 1
            /\ (ok # {}) <=> (rows # {})
            /\ \A i \in rows : /\ user_usage[i].messages_sent = Cardinality(ok)
                               /\ user_usage[i].tokens_used = SumTokens(ok)

\* two overlapping sends of one user and date were both counted
C3_Witness ==
    \E i \in 1..Len(user_usage) :
        /\ user_usage[i].messages_sent = 2
        /\ user_usage[i].tokens_used >= 1

\* C4: for every identity, the requests the limiter passed to next() with a
\* timestamp in (now - windowMs, now] number at most maxRequests, and serving one
\* identity neither changes the list of another nor depends on it.
C4_WindowBound ==
    /\ [](\A id \in Identities :
            /\ Len(SelectSeq(admitted[id], LAMBDA time : time > now - limiter.windowMs /\ time <= now))
                  <= limiter.maxRequests
            /\ userRateLimit(limiter.maxRequests, limiter.windowMs, requests, id, now).admit
                  = userRateLimit(limiter.maxRequests, limiter.windowMs,
                                  [k \in {id} \cap DOMAIN requests |-> requests[k]], id, now).admit)
    /\ [][last'.by \in {"next", "userRateLimit"} =>
            \A j \in Identities \ {last'.user.id} :
                /\ admitted'[j] = admitted[j]
                /\ j \in DOMAIN requests => (j \in DOMAIN requests' /\ requests'[j] = requests[j])]_vars

\* an identity that used up its window is answered 429 while another identity
\* is passed to next() at the same time
C4_Witness ==
    /\ limiter.maxRequests = 2
    /\ limiter.windowMs = 2
    /\ now >= 2
    /\ last.by = "next"
    /\ \E i \in Identities \ {last.user.id} :
          /\ Len(admitted[i]) = 2
          /\ ~userRateLimit(limiter.maxRequests, limiter.windowMs, requests, i, now).admit

\* C5: authenticateToken calls next() only for a token that verifies and whose
\* userId names an existing active user, with req.user that user's record; a
\* missing token is answered 401, an invalid token or a missing or inactive user
\* 403, and then nothing after the middleware runs.
C5_AuthenticatedOnly ==
    [][LET tok == last'.tok
           found == /\ tok.kind = "valid"
                    /\ tok.userId \in DOMAIN users
                    /\ users[tok.userId].is_active
       IN  /\ tok.kind = "none" =>
                 last' = Resp(tok, "authenticateToken", 401, "Access token required", NoUser)
           /\ tok.kind = "invalid" =>
                 last' = Resp(tok, "authenticateToken", 403, "Invalid or expired token", NoUser)
           /\ (tok.kind = "valid" /\ ~found) =>
                 last' = Resp(tok, "authenticateToken", 403, "User not found or inactive", NoUser)
           /\ found =>
                 /\ last'.by # "authenticateToken"
                 /\ last'.user = [id |-> tok.userId, role |-> users[tok.userId].role,
                                  is_active |-> TRUE]
           /\ last'.by = "authenticateToken" => store' = store]_vars

\* the token of a deactivated administrator was answered 403
C5_Witness ==
    /\ last.tok.userId = 1
    /\ last.by = "authenticateToken"
    /\ last.error = "User not found or inactive"
    /\ 1 \in DOMAIN users
    /\ ~users[1].is_active
    /\ 2 \in DOMAIN users
    /\ users[2].is_active

\* C6: a handler of the admin router or an /admin/* billing handler runs only
\* for a requester whose users row is active with role admin; any other request
\* is answered 401 or 403 by the middleware and leaves the store unchanged.
C6_AdminOnly ==
    [][LET tok == last'.tok
           found == /\ tok.kind = "valid"
                    /\ tok.userId \in DOMAIN users
                    /\ users[tok.userId].is_active
           admin == found /\ users[tok.userId].role = "admin"
       IN  /\ ~admin =>
                 /\ store' = store
                 /\ last'.by \in {"authenticateToken", "requireAdmin"}
                 /\ last'.status \in {401, 403}
           /\ (found /\ ~admin) =>
                 /\ last'.status = 403
                 /\ last'.error = "Admin access required"
           /\ admin => last'.by \notin {"authenticateToken", "requireAdmin"}]_vars

\* user 1, whose token was issued with role admin, was demoted and is refused,
\* after an administrator changed the store
C6_Witness ==
    /\ last.by = "requireAdmin"
    /\ last.status = 403
    /\ last.user.id = 1
    /\ settings = 0

\* C7: a POST /send that answered success went through quota check, user
\* message, history, the one adapter its provider names, assistant message, usage
\* and response in this order, and a send rejected by validation or by the quota
\* called no adapter and wrote nothing.
C7_SendStepsInOrder ==
    /\ [](\A r \in 1..Len(reqs) :
            reqs[r].status = 200 =>
                /\ reqs[r].trace = <<"quota", "user_message", "history",
                                     IF reqs[r].provider = "google" THEN "callGoogleAI"
                                     ELSE "callOpenRouter",
                                     "assistant_message", "usage", "respond">>
                /\ reqs[r].history # <<>>)
    /\ [][(last'.by = "send" /\ last'.status \in {400, 429})
            => (reqs' = reqs /\ messages' = messages /\ conversations' = conversations)]_vars

\* a send to each provider answered success and one was rejected by the quota
C7_Witness ==
    /\ \E r \in 1..Len(reqs) : reqs[r].status = 200 /\ reqs[r].provider = "openrouter"
    /\ last.by = "send" /\ last.status = 429

\* C8: a user with a credit balance who sent a message successfully has had
\* credits deducted: the balance went down and total_used went up.
C8_CreditsConsumed ==
    \A r \in 1..Len(reqs) :
        (reqs[r].status = 200 /\ reqs[r].user \in DOMAIN user_credits) =>
            /\ user_credits[reqs[r].user].credits < InitCredits
            /\ user_credits[reqs[r].user].total_used > 0

\* C9: a user holding an active Premium subscription is never answered
\* 429 'Daily message limit reached' by POST /send.
C9_PremiumUnlimited ==
    (last.by = "send" /\ last.error = "Daily message limit reached")
        => ~HoldsPlan(last.user.id, "Premium")

\* C10: a send naming a model whose required_plan is premium, or an inactive
\* model, is dispatched to a provider only for a user holding an active
\* Premium subscription.
C10_ModelsGatedByPlan ==
    (last.by = "send" /\ last.error = "awaiting") =>
        LET q == reqs[Len(reqs)]
        IN  (ai_models[q.model].required_plan = "premium" \/ ~ai_models[q.model].is_active)
                => HoldsPlan(q.user, "Premium")

\* C11: every assistant message stored in a conversation was produced by the
\* adapter and the model recorded in the conversation's provider and model
\* columns, also when a later send into the conversation names another provider
\* (stated for the sends of the conversation's owner).
C11_ThreadOfOneProvider ==
    \A i \in 1..Len(messages) :
        (messages[i].role = "assistant" /\ messages[i].conversation_id \in DOMAIN conversations) =>
            LET conv == conversations[messages[i].conversation_id]
                q == reqs[messages[i].req]
            IN  conv.user_id = q.user =>
                /\ q.adapter = (IF conv.provider = "google" THEN "callGoogleAI" ELSE "callOpenRouter")
                /\ q.model = conv.model


\* C12: the history POST /send passed to the adapter has the user message this
\* request persisted as its last element, whatever the length of the conversation
\* (stated for the sends of the conversation's owner).
C12_HistoryEndsWithRequest ==
    \A r \in 1..Len(reqs) :
        (reqs[r].conv \in DOMAIN conversations /\ conversations[reqs[r].conv].user_id = reqs[r].user) =>
            /\ reqs[r].history # <<>>
            /\ reqs[r].history[Len(reqs[r].history)] = [role |-> "user", req |-> r]

\* the messages_sent of user u on date d, 0 when there is no usage row
MessagesSent(u, d) ==
    LET rows == UsageRows(user_usage, u, d)
    IN  IF rows = {} THEN 0 ELSE user_usage[CHOOSE i \in rows : TRUE].messages_sent

\* C13: a valid POST /send is answered 429 'Daily message limit reached' exactly
\* when the user's messages_sent of the current date, 0 without a usage row, is
\* at least the max_messages_per_day setting at the time of the request,
\* including a setting of 0.
C13_QuotaExactly ==
    [][(/\ last'.by = "send"
        /\ last'.status # 400
        /\ (reqs' = reqs \/ Len(reqs') = Len(reqs) + 1))
          => ((last'.status = 429 /\ last'.error = "Daily message limit reached")
                <=> MessagesSent(last'.user.id, today(now)) >= settings)]_vars

\* C14: a POST /send that ended with an error response left conversations,
\* messages and user_usage as they were: no row of messages was written by a
\* send that answered 500.
C14_ErrorWritesNothing ==
    \A r \in 1..Len(reqs) :
        reqs[r].status = 500 => \A i \in 1..Len(messages) : messages[i].req # r

\* the positions of the messages of conversation c with role role
RowsOf(c, role) ==
    {i \in 1..Len(messages) : messages[i].conversation_id = c /\ messages[i].role = role}

\* C15: in every conversation the assistant messages are at most as many as the
\* user messages, and every assistant message comes after the user message of
\* the same request, also when sends into the conversation overlap.
C15_RepliesFollowMessages ==
    \A c \in 1..MaxSends :
        /\ Cardinality(RowsOf(c, "assistant")) <= Cardinality(RowsOf(c, "user"))
        /\ \A i \in RowsOf(c, "assistant") :
              \E j \in RowsOf(c, "user") : j < i /\ messages[j].req = messages[i].req

\* two sends into one conversation overlapped and both were answered
C15_Witness ==
    /\ Len(messages) = 4
    /\ \A i \in 1..4 : messages[i].conversation_id = 1
    /\ messages[1].role = "user" /\ messages[2].role = "user"
    /\ messages[3].role = "assistant" /\ messages[4].role = "assistant"

\* C16: every message references an existing conversation and every
\* conversation an existing user; and a send whose conversation was deleted,
\* alone or with its owner, while it awaited the provider persists no assistant
\* message, leaves user_usage unchanged and answers 500.
C16_ReferentialIntegrity ==
    /\ [](/\ \A i \in 1..Len(messages) : messages[i].conversation_id \in DOMAIN conversations
          /\ \A c \in DOMAIN conversations : conversations[c].user_id \in DOMAIN users)
    /\ [][\A r \in 1..Len(reqs) :
            (/\ reqs[r].status = 0
             /\ reqs'[r].status # 0
             /\ reqs[r].conv \notin DOMAIN conversations)
              => /\ messages' = messages
                 /\ user_usage' = user_usage
                 /\ reqs'[r].status = 500
                 /\ last'.status = 500]_vars

\* the owner of a conversation was deleted while their send into it awaited the
\* provider, and the provider's answer was dropped with 500
C16_Witness ==
    \E r \in 1..Len(reqs) :
        /\ reqs[r].status = 500
        /\ Len(reqs[r].trace) = 4
        /\ reqs[r].user \notin DOMAIN users
        /\ reqs[r].conv \notin DOMAIN conversations
        /\ last = Resp(reqs[r].tok, "send", 500, "Internal server error", reqs[r].reqUser)

\* the responses of POST /send that are errors
SendErrors == {400, 401, 403, 429, 500}

\* C17 as stated: POST /send with a conversationId that names no existing
\* conversation is answered with an error, persists no message and no
\* conversation, calls no adapter and leaves user_usage unchanged.
C17_UnknownConversation ==
    [][\A body \in SendBodies :
          (/\ body.conversationId \notin DOMAIN conversations
           /\ PostSend(last'.tok, body))
            => /\ last'.status \in SendErrors
               /\ chatTables' = chatTables
               /\ reqs' = reqs]_vars

\* C17 amended: the same for a conversationId other than 0; a request that
\* passed authentication, the limiter, validation and the quota is answered 500.
C17_UnknownNonzeroConversation ==
    [][\A body \in SendBodies :
          (/\ body.conversationId # 0
           /\ body.conversationId \notin DOMAIN conversations
           /\ PostSend(last'.tok, body))
            => /\ last'.status \in SendErrors
               /\ chatTables' = chatTables
               /\ reqs' = reqs
               /\ (last'.by = "send" /\ last'.status \notin {400, 429})
                     => last' = Resp(last'.tok, "send", 500, "Internal server error", last'.user)]_vars

\* a send naming a conversation that does not exist was answered 500 by the
\* handler's catch with nothing stored
C17_Witness ==
    /\ last.by = "send"
    /\ last.error = "Internal server error"
    /\ reqs = <<>>
    /\ messages = <<>>
    /\ conversations = <<>>

\* C18: DELETE /conversations/:id removes the conversation and all its messages
\* when the requester owns it, and otherwise answers 404 (or an error of the
\* middleware) and leaves conversations and messages unchanged; PUT
\* /conversations/:id/title changes the title of a conversation of the requester
\* only.
C18_OwnerOnly ==
    [][/\ \A c \in 1..MaxSends :
            DeleteConversation(last'.tok, c) =>
                IF /\ last'.by = "delete_conversation"
                   /\ c \in DOMAIN conversations
                   /\ conversations[c].user_id = last'.user.id
                THEN /\ last'.status = 200
                     /\ conversations' = [k \in DOMAIN conversations \ {c} |-> conversations[k]]
                     /\ messages' = SelectSeq(messages, LAMBDA m : m.conversation_id # c)
                ELSE /\ last'.status # 200
                     /\ last'.by = "delete_conversation" => last'.status = 404
                     /\ conversations' = conversations
                     /\ messages' = messages
       /\ \A c \in 1..MaxSends, title \in {"", "renamed"} :
            PutConversationTitle(last'.tok, c, title) =>
                IF /\ last'.by = "put_title"
                   /\ title # ""
                   /\ c \in DOMAIN conversations
                   /\ conversations[c].user_id = last'.user.id
                THEN /\ last'.status = 200
                     /\ conversations' = [conversations EXCEPT ![c].title = title]
                     /\ messages' = messages
                ELSE /\ last'.status # 200
                     /\ (last'.by = "put_title" /\ title # "") => last'.status = 404
                     /\ conversations' = conversations
                     /\ messages' = messages]_vars

\* a user asked to delete a conversation while every conversation belongs to
\* another user, and was answered 404
C18_Witness ==
    /\ last.by = "delete_conversation"
    /\ last.status = 404
    /\ DOMAIN conversations = 1..MaxSends
    /\ \A c \in DOMAIN conversations : conversations[c].user_id # last.user.id
    /\ messages # <<>>

\* C19: the message rows GET /conversations/:id/messages, GET
\* /conversations/:id/export and GET /export return come only from conversations
\* of the requester and are determined by the requester's own conversations and
\* messages: one conversation of theirs in order, or for /export all of them.
C19_ReadIsolation ==
    (last.by \in {"get_messages", "export_conversation", "export"} /\ last.status = 200) =>
        LET u == last.user.id
            mine == {c \in DOMAIN conversations : conversations[c].user_id = u}
            own == SelectSeq(messages, LAMBDA m : m.conversation_id \in mine)
            thread(c) == SelectSeq(own, LAMBDA m : m.conversation_id = c)
            row(m) == [conversation_id |-> m.conversation_id, role |-> m.role, req |-> m.req]
        IN  /\ \A i \in 1..Len(last.data) : last.data[i].conversation_id \in mine
            /\ last.by = "export" =>
                  /\ Len(last.data) = Len(own)
                  /\ \A c \in mine :
                        SelectSeq(last.data, LAMBDA d : d.conversation_id = c)
                          = [i \in 1..Len(thread(c)) |-> row(thread(c)[i])]
            /\ last.by # "export" =>
                  \E c \in mine : last.data = [i \in 1..Len(thread(c)) |-> row(thread(c)[i])]

\* a user exported their messages while another user had messages too
C19_Witness ==
    /\ last.by = "export"
    /\ last.data # <<>>
    /\ \E i \in 1..Len(messages) :
          /\ messages[i].conversation_id \in DOMAIN conversations
          /\ conversations[messages[i].conversation_id].user_id # last.user.id

\* the stored timestamps of identity id, none when the Map has no entry
Stored(map, id) == IF id \in DOMAIN map THEN map[id] ELSE <<>>

\* C20: a request the limiter rejects with 429 is not recorded: the identity's
\* stored list is unchanged and so is the answer the identity would get at any
\* later time; and no stored list holds more than maxRequests timestamps.
C20_RejectedNotRecorded ==
    /\ [](\A id \in DOMAIN requests : Len(requests[id]) <= limiter.maxRequests)
    /\ [][last'.by = "userRateLimit" =>
            LET id == last'.user.id
            IN  /\ Stored(requests', id) = Stored(requests, id)
                /\ \A t \in now..(MaxClock + MaxWindow) :
                      userRateLimit(limiter.maxRequests, limiter.windowMs, requests', id, t).admit
                        = userRateLimit(limiter.maxRequests, limiter.windowMs, requests, id, t).admit]_vars

\* an identity with a full list was rejected, and is admitted again as soon as
\* its oldest timestamp leaves the window
C20_Witness ==
    /\ last.by = "userRateLimit"
    /\ limiter.maxRequests = 2
    /\ Len(Stored(requests, last.user.id)) = 2
    /\ Stored(requests, last.user.id)[1] < now
    /\ userRateLimit(limiter.maxRequests, limiter.windowMs, requests, last.user.id,
                      Stored(requests, last.user.id)[1] + limiter.windowMs).admit

\* C21: a rejection reports a retryAfter of at least 1 and at most
\* ceil(windowMs / 1000) seconds; the list of the rejected identity changes only
\* when that identity is served, and with that list a request made retryAfter
\* seconds after the rejection is passed to next().
C21_RetryAfter ==
    /\ [][last'.by = "userRateLimit" =>
            LET id == Identity(last'.user, 0)
                seconds == last'.retryAfter
            IN  /\ seconds >= 1
                /\ seconds <= Ceil(limiter.windowMs, MsPerSecond)
                /\ userRateLimit(limiter.maxRequests, limiter.windowMs, requests', id,
                                 now + seconds * MsPerSecond).admit]_vars
    /\ [][\A id \in DOMAIN requests :
            (last'.by \in {"next", "userRateLimit"} => Identity(last'.user, 0) # id)
                => (id \in DOMAIN requests' /\ requests'[id] = requests[id])]_vars

\* a rejection whose wait was rounded up to two whole seconds
C21_Witness ==
    /\ last.by = "userRateLimit"
    /\ last.retryAfter = 2
    /\ LET id == Identity(last.user, 0)
       IN  last.retryAfter * MsPerSecond > requests[id][1] + limiter.windowMs - now

\* a step that serves a new request carrying a token that verifies: POST /send
\* up to its await, or any other handler; not the continuation of a send
RequestStarts ==
    /\ last'.tok.kind = "valid"
    /\ \/ reqs' = reqs
       \/ Len(reqs') = Len(reqs) + 1

\* the user a token was issued to has been deleted or deactivated
Revoked(tok) == tok.userId \notin DOMAIN users \/ ~users[tok.userId].is_active

\* C22: while the user of a token is deleted or inactive, every request that
\* starts with the token is answered 403 by authenticateToken and changes
\* nothing; a deleted user stays deleted and an inactive one stays inactive until
\* an administrator's PUT /users/:id succeeds; and a handler of the admin router
\* runs only when the users row, not the token, has role admin.
C22_RevokedTokenRefused ==
    /\ [][(RequestStarts /\ Revoked(last'.tok)) =>
            /\ last' = Resp(last'.tok, "authenticateToken", 403, "User not found or inactive", NoUser)
            /\ store' = store
            /\ middleware' = middleware]_vars
    /\ [][\A u \in UserIds :
            /\ u \notin DOMAIN users => u \notin DOMAIN users'
            /\ (u \in DOMAIN users /\ ~users[u].is_active /\ u \in DOMAIN users' /\ users'[u].is_active)
                  => (last'.by = "put_user" /\ last'.status = 200 /\ last'.user.role = "admin")]_vars
    /\ [][(RequestStarts /\ last'.by \in {"put_user", "delete_user", "put_setting"}) =>
            /\ ~Revoked(last'.tok)
            /\ users[last'.tok.userId].role = "admin"
            /\ last'.user.role = "admin"]_vars

\* user 1, whose token carries role admin and who sent a message before, was
\* deactivated and is refused
C22_Witness ==
    /\ last.tok.userId = 1
    /\ last.tok.role = "admin"
    /\ last.by = "authenticateToken"
    /\ last.status = 403
    /\ 1 \in DOMAIN users
    /\ ~users[1].is_active
    /\ \E r \in 1..Len(reqs) : reqs[r].user = 1 /\ reqs[r].status = 200

\* C23: DELETE /users/:id by an active administrator with :id the
\* administrator's own id is answered 400 'Cannot delete your own account' and
\* leaves the users table and every other table unchanged.
C23_NoSelfDelete ==
    [][LET tok == last'.tok
       IN  (/\ tok.kind = "valid"
            /\ ~Revoked(tok)
            /\ users[tok.userId].role = "admin"
            /\ AdminDeleteUser(tok, tok.userId))
           => /\ last' = Resp(tok, "delete_user", 400, "Cannot delete your own account",
                               [id |-> tok.userId, role |-> "admin", is_active |-> TRUE])
              /\ store' = store]_vars

\* the promoted user 2, who holds a conversation, was refused the deletion of
\* the own account while another administrator exists
C23_Witness ==
    /\ last.by = "delete_user"
    /\ last.status = 400
    /\ last.tok.userId = 2
    /\ 1 \in DOMAIN users
    /\ users[1].role = "admin"
    /\ users[1].is_active
    /\ \E c \in DOMAIN conversations : conversations[c].user_id = 2

\* C24: after any sequence of admin user-management operations at least one
\* user with role admin and is_active set exists.
C24_AdminRemains ==
    \E u \in DOMAIN users : users[u].role = "admin" /\ users[u].is_active

\* C25: no two users hold the same email in any state; POST /users by an
\* administrator with an email a user holds is answered 409 and leaves the
\* users table unchanged with no insert pending.
C25_EmailsUnique ==
    /\ [](\A u, v \in DOMAIN users : u # v => users[u].email # users[v].email)
    /\ [][LET tok == last'.tok
           IN  \A body \in CreateBodies :
                   (/\ tok.kind = "valid"
                    /\ ~Revoked(tok)
                    /\ users[tok.userId].role = "admin"
                    /\ existingUser(users, body.email)
                    /\ AdminPostUser(tok, body))
                   => /\ last'.by = "post_user"
                      /\ last'.status = 409
                      /\ last'.error = "User with this email already exists"
                      /\ users' = users
                      /\ accounts' = accounts]_vars

\* a created user exists, and a PUT /users/:id that would have given a user the
\* email of another was refused
C25_Witness ==
    /\ last.by = "put_user"
    /\ last.status = 500
    /\ \E u \in DOMAIN users : u > NumUsers /\ users[u].email = "new@example.com"

\* some user_subscriptions row with status active references plan id
Subscribed(id) ==
    \E k \in DOMAIN user_subscriptions :
        user_subscriptions[k].plan_id = id /\ user_subscriptions[k].status = "active"

\* C26: every active subscription references an existing plan in every state; a
\* plan leaves subscription_plans only when no active subscription references
\* it; and DELETE /admin/plans/:id by an administrator for a plan with an active
\* subscription is answered 400 and leaves subscription_plans unchanged.
C26_ActivePlanKept ==
    /\ [](\A k \in DOMAIN user_subscriptions :
            user_subscriptions[k].status = "active"
                => user_subscriptions[k].plan_id \in DOMAIN subscription_plans)
    /\ [][\A id \in DOMAIN subscription_plans \ DOMAIN subscription_plans' :
            ~Subscribed(id)]_vars
    /\ [][LET tok == last'.tok
           IN  \A id \in 1..MaxPlans :
                   (/\ tok.kind = "valid"
                    /\ ~Revoked(tok)
                    /\ users[tok.userId].role = "admin"
                    /\ Subscribed(id)
                    /\ AdminDeletePlan(tok, id))
                   => /\ last'.by = "delete_plan"
                      /\ last'.status = 400
                      /\ subscription_plans' = subscription_plans]_vars

\* the deletion of the Premium plan was refused while user 1 subscribes to it,
\* after the plan without subscriptions was deleted
C26_Witness ==
    /\ last.by = "delete_plan"
    /\ last.status = 400
    /\ 3 \notin DOMAIN subscription_plans
    /\ \E k \in DOMAIN user_subscriptions :
          user_subscriptions[k].plan_id = 2 /\ user_subscriptions[k].status = "active"

\* the field names of the preferences object
PreferenceNames ==
    {"theme", "language", "notifications", "autoSave", "defaultProvider", "defaultModel"}

\* C27: after PUT /preferences with a preferences object whose fields are all
\* valid, GET /preferences returns that object; every GET /preferences answers
\* under the field names theme, language, notifications, autoSave,
\* defaultProvider, defaultModel, whether or not the user had a row; and no user
\* has more than one row.
C27_PreferencesRoundTrip ==
    /\ [](\A u \in UserIds : Len(PreferencesOf(user_preferences, u)) <= 1)
    /\ [][LET tok == last'.tok
           IN  \A preferences \in ValidPreferences :
                   (/\ tok.kind = "valid"
                    /\ ~Revoked(tok)
                    /\ PutPreferences(tok, preferences))
                   => PreferencesResponse(user_preferences', tok.userId) = preferences]_vars
    /\ [][last'.by = "get_preferences" => DOMAIN last'.data[1] = PreferenceNames]_vars

\* C28: when a sendMessage call fails, exactly the optimistic user message of
\* that call leaves messages and every other message stays, and when it
\* succeeds messages ends with that user message followed by its assistant
\* reply, whatever other sendMessage calls and loadMessages completions ran in
\* between.
C28_OptimisticRollback ==
    [][\A n \in 1..MaxCalls :
          /\ (sends[n].status = "awaiting" /\ sends'[n].status = "failed") =>
                chatStore'.messages = SelectSeq(chatStore.messages, LAMBDA m : m # userMessage(n))
          /\ (sends[n].status = "awaiting" /\ sends'[n].status = "ok") =>
                LET msgs == chatStore'.messages
                IN  /\ Len(msgs) >= 2
                    /\ msgs[Len(msgs) - 1] = userMessage(n)
                    /\ msgs[Len(msgs)] = aiMessage(n)]_vars

====
